---- MODULE Spec2Model ----
(***************************************************************************)
(* Model of add_photo_locations_from_gpx.py: the GPXData index over the    *)
(* track points of a GPX file (points / timestamps cached properties,      *)
(* nearest_location, __len__), add_location_to_photo and main.             *)
(*                                                                         *)
(* Time is counted in ticks, TicksPerSecond ticks to the second, so that   *)
(* datetimes with a fractional second, and the float that total_seconds()  *)
(* returns, are represented exactly.  `delta` is an int number of seconds. *)
(***************************************************************************)
EXTENDS Integers, Sequences, FiniteSets, TLC

VARIABLES
    gpx,               \* self.gpx: the parsed file, tracks -> segments -> points
    points_cache,      \* the cached_property `points` in the instance __dict__
    timestamps_cache,  \* the cached_property `timestamps` in the instance __dict__
    opts,              \* the options of the run: delta, offset, dry_run, album
    last,              \* the last call made on the module and its outcome
    located,           \* photos whose library_photo.location has been set
    in_album,          \* photos added to the album with album.add
    main,              \* where main() is, and its counters
    readers            \* concurrent readers inside nearest_location

vars == <<gpx, points_cache, timestamps_cache, opts, last, located, in_album, main, readers>>

----------------------------------------------------------------------------
\* Bounds of the model.

TicksPerSecond == 2
MaxTick == 2
MaxPoints == 3
MaxTracks == 2
MaxSegments == 1
MaxMatchPoints == 2
MaxOffset == 1
MaxPhotos == 2
NumReaders == 2

\* DEFAULT_TIME_DELTA, in seconds.
DEFAULT_TIME_DELTA == 60

----------------------------------------------------------------------------
\* Helpers.

Abs(x) == IF x < 0 THEN -x ELSE x

MaxOf(a, b) == IF a > b THEN a ELSE b

MinOf(a, b) == IF a < b THEN a ELSE b

\* A GPXTrackPoint: `id` stands for the object (its latitude and longitude),
\* has_time is `p.time is not None`.
TrackPoint(k, v) == [id |-> k, has_time |-> v.has_time, time |-> v.time]

NoPoint == [id |-> 0, has_time |-> FALSE, time |-> 0]

PointValues(ticks) ==
    {[has_time |-> FALSE, time |-> 0]} \cup {[has_time |-> TRUE, time |-> t] : t \in ticks}

\* The monotone assignments of points 1..n to the segments (bins) of the file.
Labellings(n, bins) ==
    {lab \in [1..n -> bins] : \A k \in 1..n : k > 1 => lab[k-1] <= lab[k]}

SegmentOf(raw, lab, b) ==
    LET ks == {k \in DOMAIN raw : lab[k] = b}
        lo == IF ks = {} THEN 1 ELSE CHOOSE k \in ks : \A j \in ks : k <= j
    IN  [points |-> [j \in 1..Cardinality(ks) |-> TrackPoint(lo + j - 1, raw[lo + j - 1])]]

\* The parsed file: ntracks tracks of nsegs segments each (some may be empty).
BuildGPX(raw, lab, ntracks, nsegs) ==
    [tracks |-> [t \in 1..ntracks |->
        [segments |-> [s \in 1..nsegs |-> SegmentOf(raw, lab, (t - 1) * nsegs + s)]]]]

\* self.gpx is the parse of some file of at most maxpts points.
LoadGPX(maxpts, ticks, ntracks, nsegs) ==
    \E n \in 0..maxpts :
        \E raw \in [1..n -> PointValues(ticks)], lab \in Labellings(n, 1..(ntracks * nsegs)) :
            gpx = BuildGPX(raw, lab, ntracks, nsegs)

\* The parse of a file of one track of one segment that has its timed points
\* in time order, as a recorder writes them.
LoadOrderedGPX(maxpts, ticks) ==
    \E n \in 0..maxpts :
        \E raw \in [1..n -> PointValues(ticks)] :
            /\ \A i, j \in 1..n :
                  (i < j /\ raw[i].has_time /\ raw[j].has_time) => raw[i].time <= raw[j].time
            /\ gpx = BuildGPX(raw, [k \in 1..n |-> 1], 1, 1)

----------------------------------------------------------------------------
\* GPXData.points (lines 54-62).

\* Mutant: the points of a segment, those without a time too.
AllPoints(seg) == seg.points

\* [p for p in segment.points if p.time is not None]
TimedPoints(seg) == SelectSeq(seg.points, LAMBDA p : p.has_time)

RECURSIVE ExtendSegments(_, _, _)
ExtendSegments(segs, s, acc) ==
    IF s > Len(segs) THEN acc
    ELSE ExtendSegments(segs, s + 1, acc \o TimedPoints(segs[s]))

RECURSIVE ExtendTracks(_, _, _)
ExtendTracks(tracks, t, acc) ==
    IF t > Len(tracks) THEN acc
    ELSE ExtendTracks(tracks, t + 1, ExtendSegments(tracks[t].segments, 1, acc))

\* Insert x after every element whose key is <= x's: the sort is stable.
RECURSIVE InsertByTime(_, _)
InsertByTime(s, x) ==
    IF s = <<>> THEN <<x>>
    ELSE IF s[Len(s)].time <= x.time THEN Append(s, x)
    ELSE Append(InsertByTime(SubSeq(s, 1, Len(s) - 1), x), s[Len(s)])

RECURSIVE SortedByTime(_)
SortedByTime(s) ==
    IF s = <<>> THEN <<>>
    ELSE InsertByTime(SortedByTime(SubSeq(s, 1, Len(s) - 1)), s[Len(s)])

\* Mutant: the points in the order of the file, unsorted.
ComputePointsUnsorted(g) == ExtendTracks(g.tracks, 1, <<>>)

\* The body of the `points` property.
ComputePoints(g) == SortedByTime(ExtendTracks(g.tracks, 1, <<>>))

\* The body of the `timestamps` property (lines 64-67).
ComputeTimestamps(pts) == [i \in 1..Len(pts) |-> pts[i].time]

\* functools.cached_property: the value in the instance __dict__, else the
\* method's value, which is then stored.
NotCached == [cached |-> FALSE, value |-> <<>>]

Cached(v) == [cached |-> TRUE, value |-> v]

PointsAfterGet == IF points_cache.cached THEN points_cache ELSE Cached(ComputePoints(gpx))

TimestampsAfterGet ==
    IF timestamps_cache.cached THEN timestamps_cache
    ELSE Cached(ComputeTimestamps(PointsAfterGet.value))

----------------------------------------------------------------------------
\* GPXData._nearest_location_from_timestamp (lines 82-88).

\* bisect.bisect_left(a, x), 0-based: the first position whose element is >= x.
RECURSIVE BisectLeft(_, _, _, _)
BisectLeft(a, x, lo, hi) ==
    IF lo < hi
    THEN LET mid == (lo + hi) \div 2
         IN  IF a[mid + 1] < x THEN BisectLeft(a, x, mid + 1, hi)
             ELSE BisectLeft(a, x, lo, mid)
    ELSE lo

\* The slice a[lo:hi] of a Python list, 0-based, hi clamped to len(a).
Slice(a, lo, hi) == SubSeq(a, MinOf(lo, Len(a)) + 1, MinOf(hi, Len(a)))

\* Mutant: the window starts at the insertion point, not before it.
WindowFromInsertion(ts, i) == Slice(ts, i, i + 2)

\* self.timestamps[max(0, i - 1) : i + 2]
Window(ts, i) == Slice(ts, MaxOf(0, i - 1), i + 2)

\* Mutant: the last element whose key is the least.
RECURSIVE MinByKeyLast(_, _, _, _)
MinByKeyLast(w, timestamp, k, best) ==
    IF k > Len(w) THEN best
    ELSE IF Abs(timestamp - w[k]) <= Abs(timestamp - best)
         THEN MinByKeyLast(w, timestamp, k + 1, w[k])
         ELSE MinByKeyLast(w, timestamp, k + 1, best)

\* min(window, key=lambda t: abs(timestamp - t)): the first element whose key
\* is the least (a later element replaces the best only when strictly less).
RECURSIVE MinByKey(_, _, _, _)
MinByKey(w, timestamp, k, best) ==
    IF k > Len(w) THEN best
    ELSE IF Abs(timestamp - w[k]) < Abs(timestamp - best)
         THEN MinByKey(w, timestamp, k + 1, w[k])
         ELSE MinByKey(w, timestamp, k + 1, best)

\* next((p for p in self.points if p.time == nearest), None)
FirstWithTime(pts, nearest) ==
    LET hits == {k \in 1..Len(pts) : pts[k].time = nearest}
    IN  IF hits = {} THEN NoPoint
        ELSE pts[CHOOSE k \in hits : \A j \in hits : k <= j]

\* _nearest_location_from_timestamp: min() of an empty window raises ValueError.
NearestTimestamp(ts, timestamp) ==
    LET w == Window(ts, BisectLeft(ts, timestamp, 0, Len(ts)))
    IN  IF w = <<>> THEN [raised |-> TRUE, nearest |-> 0]
        ELSE [raised |-> FALSE, nearest |-> MinByKey(w, timestamp, 2, w[1])]

\* Lines 79-80: the first point with the nearest timestamp and its distance to
\* the query; `point.time` of a point that is None raises AttributeError.
LocationAt(pts, nearest, timestamp) ==
    LET point == FirstWithTime(pts, nearest)
    IN  IF point = NoPoint
        THEN [raised |-> TRUE, error |-> "AttributeError", point |-> NoPoint, gap |-> 0]
        ELSE [raised |-> FALSE, error |-> "", point |-> point,
              gap |-> Abs(point.time - timestamp)]

\* Mutant: an empty index gives no point and an unbounded gap, and no exception.
NearestLocationQuiet(pts, ts, timestamp) ==
    LET n == NearestTimestamp(ts, timestamp)
    IN  IF n.raised
        THEN [raised |-> FALSE, error |-> "", point |-> NoPoint, gap |-> 1000000]
        ELSE LocationAt(pts, n.nearest, timestamp)

\* GPXData.nearest_location (lines 75-80) on the lists the properties gave.
NearestLocation(pts, ts, timestamp) ==
    LET n == NearestTimestamp(ts, timestamp)
    IN  IF n.raised
        THEN [raised |-> TRUE, error |-> "ValueError", point |-> NoPoint, gap |-> 0]
        ELSE LocationAt(pts, n.nearest, timestamp)

----------------------------------------------------------------------------
\* add_location_to_photo (lines 94-139).

NoOffset == [given |-> FALSE, ticks |-> 0]

OffsetOf(d) == [given |-> TRUE, ticks |-> d]

\* Mutant: the offset is subtracted.
EffectiveDateSubtract(photo_date, offset) ==
    IF offset.given THEN photo_date - offset.ticks ELSE photo_date

\* date = photo.date + offset if offset is not None else photo.date
EffectiveDate(photo_date, offset) ==
    IF offset.given THEN photo_date + offset.ticks ELSE photo_date

\* int(nearest_delta) of a gap of `gap` ticks: total_seconds() truncated
\* towards zero.
TruncSeconds(gap) ==
    IF gap >= 0 THEN gap \div TicksPerSecond ELSE -((-gap) \div TicksPerSecond)

\* Mutant: `nearest_delta > delta` rejects.
PassesThresholdInclusive(nearest_delta, delta) == ~(nearest_delta > delta)

\* `nearest_delta >= delta` is false: the match passes the threshold check.
PassesThreshold(nearest_delta, delta) == ~(nearest_delta >= delta)

\* What the Photos library and the album do when the code calls them.
ExtOutcomes == {"ok", "library_raises", "no_photo", "location_raises", "album_raises"}

\* The effects of the `if not dry_run:` block (lines 120-138), in order, and
\* the value returned after it.
WriteLocation(album, ext) ==
    CASE ext = "library_raises"  -> [effects |-> <<>>, failure |-> "Exception", ret |-> 0]
      [] ext = "no_photo"        -> [effects |-> <<>>, failure |-> "no photo", ret |-> 0]
      [] ext = "location_raises" -> [effects |-> <<>>, failure |-> "Exception", ret |-> 0]
      [] ext = "album_raises" /\ album ->
            [effects |-> <<"location">>, failure |-> "Exception", ret |-> 0]
      [] OTHER -> [effects |-> IF album THEN <<"location", "album">> ELSE <<"location">>,
                   failure |-> "", ret |-> 1]

\* Mutant: the dry run writes too.
WritesAlways(dry_run) == TRUE

\* `if not dry_run:` (line 120)
Writes(dry_run) == ~dry_run

NoCall ==
    [op |-> "none", photo |-> 0, date |-> 0, timestamp |-> 0, outcome |-> "none",
     error |-> "", point |-> NoPoint, gap |-> 0, nearest_delta |-> 0,
     accepted |-> FALSE, ret |-> -1, effects |-> <<>>, failure |-> ""]

AddLocationToPhoto(photo, photo_date, delta, offset, dry_run, album, ext, pts, ts) ==
    LET date == EffectiveDate(photo_date, offset)
        r == NearestLocation(pts, ts, date)
        nearest_delta == TruncSeconds(r.gap)
        call == [NoCall EXCEPT !.op = "add_location_to_photo", !.photo = photo,
                               !.date = photo_date, !.timestamp = date]
    IN  IF r.raised
        THEN [call EXCEPT !.outcome = "raise", !.error = r.error]
        ELSE LET found == [call EXCEPT !.outcome = "return", !.point = r.point,
                                       !.gap = r.gap, !.nearest_delta = nearest_delta]
             IN  IF ~PassesThreshold(nearest_delta, delta)
                 THEN [found EXCEPT !.ret = 0]
                 ELSE IF ~Writes(dry_run)
                 THEN [found EXCEPT !.accepted = TRUE, !.ret = 1]
                 ELSE LET w == WriteLocation(album, ext)
                      IN  [found EXCEPT !.accepted = TRUE, !.ret = w.ret,
                                        !.effects = w.effects, !.failure = w.failure]

Contains(s, x) == \E k \in 1..Len(s) : s[k] = x

----------------------------------------------------------------------------
\* The sets the inputs are drawn from.

Ticks == 0..MaxTick

\* photo.date, and the timestamp of a query.
Dates == 0..MaxTick

\* --offset: none, zero, and MaxOffset ticks either way.
Offsets == {NoOffset, OffsetOf(-MaxOffset), OffsetOf(0), OffsetOf(MaxOffset)}

\* --delta: negative, zero, and up to the largest gap in seconds.
Deltas == (-1)..((MaxTick + MaxOffset) \div TicksPerSecond)

Options == [delta : Deltas, offset : Offsets, dry_run : BOOLEAN, album : BOOLEAN]

\* The options main() gets when none is given on the command line.
DefaultOptions ==
    [delta |-> DEFAULT_TIME_DELTA, offset |-> NoOffset, dry_run |-> FALSE, album |-> FALSE]

MainStart == [pc |-> "start", k |-> 0, queries |-> 0, results |-> 0, status |-> 0]

----------------------------------------------------------------------------
\* Calls on a GPXData (the module used as a library).

\* len(gpx_data) (lines 90-91)
LenCall ==
    /\ main.pc = "start"
    /\ points_cache' = PointsAfterGet
    /\ last' = [NoCall EXCEPT !.op = "len", !.outcome = "return",
                              !.ret = Len(PointsAfterGet.value)]
    /\ UNCHANGED <<gpx, timestamps_cache, opts, located, in_album, main, readers>>

\* gpx_data.nearest_location(timestamp) (lines 75-80)
NearestLocationCall(dates) ==
    /\ main.pc = "start"
    /\ \E timestamp \in dates :
        LET r == NearestLocation(PointsAfterGet.value, TimestampsAfterGet.value, timestamp)
        IN  last' = [NoCall EXCEPT !.op = "nearest_location", !.timestamp = timestamp,
                                   !.date = timestamp,
                                   !.outcome = IF r.raised THEN "raise" ELSE "return",
                                   !.error = r.error, !.point = r.point, !.gap = r.gap]
    /\ points_cache' = PointsAfterGet
    /\ timestamps_cache' = TimestampsAfterGet
    /\ UNCHANGED <<gpx, opts, located, in_album, main, readers>>

\* The Photos library and the album are called only for an accepted match
\* outside a dry run: only then is there an outcome of theirs to draw.
ExtChoices(photo_date) ==
    LET call == AddLocationToPhoto(1, photo_date, opts.delta, opts.offset, opts.dry_run,
                                   opts.album, "ok",
                                   PointsAfterGet.value, TimestampsAfterGet.value)
    IN  IF call.effects # <<>> THEN ExtOutcomes ELSE {"ok"}

\* The effects of one add_location_to_photo call on the library and the album.
ApplyCall(call) ==
    /\ last' = call
    /\ located' = IF Contains(call.effects, "location")
                  THEN located \cup {call.photo} ELSE located
    /\ in_album' = IF Contains(call.effects, "album")
                   THEN in_album \cup {call.photo} ELSE in_album
    /\ points_cache' = PointsAfterGet
    /\ timestamps_cache' = TimestampsAfterGet

\* add_location_to_photo(photo, gpx_data, delta, offset, dry_run, album)
\* The photo passed is the first of the library.
AddLocationToPhotoCall(dates) ==
    /\ main.pc = "start"
    /\ \E photo_date \in dates :
        \E ext \in ExtChoices(photo_date) :
            ApplyCall(AddLocationToPhoto(1, photo_date, opts.delta, opts.offset,
                                         opts.dry_run, opts.album, ext,
                                         PointsAfterGet.value, TimestampsAfterGet.value))
    /\ UNCHANGED <<gpx, opts, main, readers>>

----------------------------------------------------------------------------
\* main (lines 189-246).

\* Lines 191-209: load the file; no track point, no run.  rich's print may
\* not take err=True: the process then ends on the TypeError instead of on
\* sys.exit(1); both end it with status 1.  main is the entry point of the
\* script: it starts in a process where nothing has been called yet.
MainLoad ==
    /\ main.pc = "start"
    /\ last.op = "none"
    /\ points_cache' = PointsAfterGet
    /\ IF Len(PointsAfterGet.value) = 0
       THEN \E err \in {"SystemExit", "TypeError"} :
              /\ main' = [main EXCEPT !.pc = "exit", !.status = 1]
              /\ last' = [NoCall EXCEPT !.op = "main", !.outcome = "exit", !.error = err]
       ELSE /\ main' = [main EXCEPT !.pc = "loaded"]
            /\ last' = [NoCall EXCEPT !.op = "main"]
    /\ UNCHANGED <<gpx, timestamps_cache, opts, located, in_album, readers>>

\* Lines 211-236: the photos to check: the selected ones, or all, that lack a
\* location.  --selected with nothing selected ends the run.
MainSelect ==
    /\ main.pc = "loaded"
    /\ \E selected \in BOOLEAN, has_selection \in BOOLEAN :
        IF selected /\ ~has_selection
        THEN \E err \in {"SystemExit", "TypeError"} :
               /\ main' = [main EXCEPT !.pc = "exit", !.status = 1]
               /\ last' = [NoCall EXCEPT !.op = "main", !.outcome = "exit", !.error = err]
        ELSE /\ main' = [main EXCEPT !.pc = "loop"]
             /\ last' = [NoCall EXCEPT !.op = "main"]
    /\ UNCHANGED <<gpx, points_cache, timestamps_cache, opts, located, in_album, readers>>

\* Lines 237-240: one term of the sum, add_location_to_photo on the next photo
\* of the list (its photos are 1, 2, ... and k of them are done).
MainPhoto(dates) ==
    /\ main.pc = "loop"
    /\ main.k < MaxPhotos
    /\ \E photo_date \in dates : \E ext \in ExtChoices(photo_date) :
        LET call == AddLocationToPhoto(main.k + 1, photo_date, opts.delta, opts.offset,
                                       opts.dry_run, opts.album, ext,
                                       PointsAfterGet.value, TimestampsAfterGet.value)
        IN  /\ ApplyCall(call)
            /\ main' = IF call.outcome = "raise"
                       THEN [main EXCEPT !.pc = "exit", !.status = 1,
                                         !.queries = @ + 1]
                       ELSE [main EXCEPT !.k = @ + 1, !.queries = @ + 1,
                                         !.results = @ + call.ret]
    /\ UNCHANGED <<gpx, opts, readers>>

\* Lines 242-246: the list is exhausted and the sum complete.
MainDone ==
    /\ main.pc = "loop"
    /\ main' = [main EXCEPT !.pc = "done"]
    /\ last' = [NoCall EXCEPT !.op = "main", !.outcome = "return", !.ret = main.results]
    /\ UNCHANGED <<gpx, points_cache, timestamps_cache, opts, located, in_album, readers>>

----------------------------------------------------------------------------
\* Readers that call nearest_location on one shared GPXData from several
\* threads.  functools.cached_property takes no lock: a reader that misses
\* the cache runs the method and stores its value, whatever the others do
\* meanwhile.  A step is one look at a cache, one store, or the pure
\* computation between two of them.

Readers == 1..NumReaders

NoResult == [raised |-> FALSE, error |-> "", point |-> NoPoint, gap |-> 0]

IdleReader ==
    [pc |-> "idle", timestamp |-> 0, pts |-> <<>>, ts |-> <<>>, nearest |-> 0,
     computed |-> FALSE, result |-> NoResult]

NoReaders == [r \in Readers |-> IdleReader]

\* Mutant: the property extends the list already stored instead of storing
\* the list it built.
StoreValueExtend(cache, val) ==
    IF cache.cached THEN Cached(cache.value \o val) ELSE Cached(val)

\* cache[self.attrname] = val
StoreValue(cache, val) == Cached(val)

ReaderFrame == <<gpx, opts, last, located, in_album, main>>

\* The timestamps the readers ask for: the first and the last instant.
ReaderDates == {0, MaxTick}

\* nearest_location(timestamp) is called.
ReaderCall(r) ==
    /\ readers[r].pc = "idle"
    /\ \E timestamp \in ReaderDates :
        readers' = [readers EXCEPT ![r] = [IdleReader EXCEPT !.pc = "timestamps",
                                                              !.timestamp = timestamp]]
    /\ UNCHANGED <<points_cache, timestamps_cache>>
    /\ UNCHANGED ReaderFrame

\* self.timestamps (line 84): the cached list, else into the method.
ReaderTimestamps(r) ==
    /\ readers[r].pc = "timestamps"
    /\ readers' = [readers EXCEPT ![r] =
          IF timestamps_cache.cached
          THEN [@ EXCEPT !.pc = "min", !.ts = timestamps_cache.value]
          ELSE [@ EXCEPT !.pc = "timestamps_points"]]
    /\ UNCHANGED <<points_cache, timestamps_cache>>
    /\ UNCHANGED ReaderFrame

\* self.points inside the timestamps method (line 67): the cached list, else
\* the list the points method builds (lines 58-62).
ReaderTimestampsPoints(r) ==
    /\ readers[r].pc = "timestamps_points"
    /\ readers' = [readers EXCEPT ![r] =
          IF points_cache.cached
          THEN [@ EXCEPT !.pc = "timestamps_store", !.pts = points_cache.value]
          ELSE [@ EXCEPT !.pc = "timestamps_points_store", !.pts = ComputePoints(gpx),
                         !.computed = TRUE]]
    /\ UNCHANGED <<points_cache, timestamps_cache>>
    /\ UNCHANGED ReaderFrame

\* The points list this reader built is stored, in the timestamps method or
\* in nearest_location; the reader goes on with the list it built.
ReaderPointsStore(r) ==
    /\ readers[r].pc \in {"timestamps_points_store", "points_store"}
    /\ points_cache' = StoreValue(points_cache, readers[r].pts)
    /\ readers' = [readers EXCEPT
          ![r].pc = IF readers[r].pc = "points_store" THEN "next" ELSE "timestamps_store"]
    /\ UNCHANGED timestamps_cache
    /\ UNCHANGED ReaderFrame

\* The timestamps list is built from the points this reader holds, and stored.
ReaderTimestampsStore(r) ==
    /\ readers[r].pc = "timestamps_store"
    /\ timestamps_cache' = StoreValue(timestamps_cache, ComputeTimestamps(readers[r].pts))
    /\ readers' = [readers EXCEPT ![r].pc = "min",
                                  ![r].ts = ComputeTimestamps(readers[r].pts)]
    /\ UNCHANGED points_cache
    /\ UNCHANGED ReaderFrame

\* bisect_left and min over the window (lines 84-88).
ReaderMin(r) ==
    /\ readers[r].pc = "min"
    /\ LET n == NearestTimestamp(readers[r].ts, readers[r].timestamp)
       IN  readers' = [readers EXCEPT ![r] =
              IF n.raised
              THEN [@ EXCEPT !.pc = "raised",
                             !.result = [NoResult EXCEPT !.raised = TRUE,
                                                         !.error = "ValueError"]]
              ELSE [@ EXCEPT !.pc = "points", !.nearest = n.nearest]]
    /\ UNCHANGED <<points_cache, timestamps_cache>>
    /\ UNCHANGED ReaderFrame

\* self.points (line 79): the cached list, else the list the method builds.
ReaderPoints(r) ==
    /\ readers[r].pc = "points"
    /\ readers' = [readers EXCEPT ![r] =
          IF points_cache.cached
          THEN [@ EXCEPT !.pc = "next", !.pts = points_cache.value]
          ELSE [@ EXCEPT !.pc = "points_store", !.pts = ComputePoints(gpx),
                         !.computed = TRUE]]
    /\ UNCHANGED <<points_cache, timestamps_cache>>
    /\ UNCHANGED ReaderFrame

\* next(...) over the points and the distance (lines 79-80).
ReaderNext(r) ==
    /\ readers[r].pc = "next"
    /\ LET res == LocationAt(readers[r].pts, readers[r].nearest, readers[r].timestamp)
       IN  readers' = [readers EXCEPT ![r].pc = IF res.raised THEN "raised" ELSE "done",
                                      ![r].result = res]
    /\ UNCHANGED <<points_cache, timestamps_cache>>
    /\ UNCHANGED ReaderFrame

\* The caller has the result (or the exception); the reader may call again.
ReaderReturn(r) ==
    /\ readers[r].pc \in {"done", "raised"}
    /\ readers' = [readers EXCEPT ![r] = IdleReader]
    /\ UNCHANGED <<points_cache, timestamps_cache>>
    /\ UNCHANGED ReaderFrame

----------------------------------------------------------------------------
\* Specifications.

InitRest ==
    /\ points_cache = NotCached
    /\ timestamps_cache = NotCached
    /\ last = NoCall
    /\ located = {}
    /\ in_album = {}
    /\ main = MainStart
    /\ readers = NoReaders

\* A run of the script, or of its functions, on a small file.
Init ==
    /\ LoadOrderedGPX(MaxMatchPoints, Ticks)
    /\ opts \in Options
    /\ InitRest

Next ==
    \/ LenCall
    \/ NearestLocationCall(Dates)
    \/ AddLocationToPhotoCall(Dates)
    \/ MainLoad
    \/ MainSelect
    \/ MainPhoto(Dates)
    \/ MainDone

Spec == Init /\ [][Next]_vars

\* The index alone, over files of several tracks and segments.
InitIndex ==
    /\ LoadGPX(MaxPoints, Ticks, MaxTracks, MaxSegments)
    /\ opts = DefaultOptions
    /\ InitRest

NextIndex ==
    \/ LenCall
    \/ NearestLocationCall(Dates)

SpecIndex == InitIndex /\ [][NextIndex]_vars

\* Concurrent readers of one index.
InitReaders ==
    /\ LoadOrderedGPX(MaxMatchPoints, Ticks)
    /\ opts = DefaultOptions
    /\ InitRest

NextReaders ==
    \E r \in Readers :
        \/ ReaderCall(r)
        \/ ReaderTimestamps(r)
        \/ ReaderTimestampsPoints(r)
        \/ ReaderTimestampsStore(r)
        \/ ReaderMin(r)
        \/ ReaderPoints(r)
        \/ ReaderPointsStore(r)
        \/ ReaderNext(r)
        \/ ReaderReturn(r)

SpecReaders == InitReaders /\ [][NextReaders]_vars

\* The scenario of the specification: samples at 1000, 1060 and 1120 seconds,
\* in any order in the file, and the default delta.
Seconds(n) == n * TicksPerSecond

ScenarioTimes == {Seconds(1000), Seconds(1060), Seconds(1120)}

ScenarioDates == {Seconds(1000), Seconds(1090)}

ScenarioOptions ==
    [delta : {DEFAULT_TIME_DELTA},
     offset : {NoOffset, OffsetOf(0), OffsetOf(Seconds(200))},
     dry_run : BOOLEAN, album : BOOLEAN]

InitScenario ==
    /\ LoadGPX(Cardinality(ScenarioTimes), ScenarioTimes, 1, MaxSegments)
    /\ {p.time : p \in {q \in UNION {{seg.points[k] : k \in DOMAIN seg.points} :
                                seg \in {gpx.tracks[1].segments[i] :
                                           i \in DOMAIN gpx.tracks[1].segments}} :
                            q.has_time}} = ScenarioTimes
    /\ opts \in ScenarioOptions
    /\ InitRest

NextScenario ==
    \/ LenCall
    \/ NearestLocationCall(ScenarioDates)
    \/ AddLocationToPhotoCall(ScenarioDates)
    \/ MainLoad
    \/ MainSelect
    \/ MainPhoto(ScenarioDates)
    \/ MainDone

SpecScenario == InitScenario /\ [][NextScenario]_vars

----------------------------------------------------------------------------
\* What the claims are stated over: the file's points, scanned exhaustively.

Range(f) == {f[k] : k \in DOMAIN f}

RawPointSet(g) ==
    UNION {UNION {Range(seg.points) : seg \in Range(tr.segments)} : tr \in Range(g.tracks)}

TimedPointSet(g) == {p \in RawPointSet(g) : p.has_time}

GapTo(p, q) == Abs(q - p.time)

\* min(abs(q - s.time)) over all the samples of the file.
MinGap(g, q) ==
    CHOOSE m \in {GapTo(p, q) : p \in TimedPointSet(g)} :
        \A p \in TimedPointSet(g) : m <= GapTo(p, q)

IsSortedByTime(idx) == \A i \in 1..(Len(idx) - 1) : idx[i].time <= idx[i + 1].time

\* The points of the file are not in time order as they come.
InputUnsorted(g) == \E p, q \in TimedPointSet(g) : p.id < q.id /\ p.time > q.time

\* C1: on a non-empty index, nearest_location returns, for every query time,
\* a gap that is the least distance from the query to any sample of the file,
\* and a point of the file that lies at that least distance: the bisect and
\* window search agrees with an exhaustive scan.
C1_NearestIsExhaustiveMin ==
    (last.op = "nearest_location" /\ TimedPointSet(gpx) # {}) =>
        /\ last.outcome = "return"
        /\ last.gap = MinGap(gpx, last.timestamp)
        /\ last.point \in TimedPointSet(gpx)
        /\ GapTo(last.point, last.timestamp) = MinGap(gpx, last.timestamp)

\* A query strictly between two of three samples that the file gives out of
\* time order, the point returned not being the first of the file.
C1_Witness ==
    /\ last.op = "nearest_location"
    /\ last.outcome = "return"
    /\ Cardinality(TimedPointSet(gpx)) >= 3
    /\ InputUnsorted(gpx)
    /\ last.gap > 0
    /\ \E p, q \in TimedPointSet(gpx) : p.time < last.timestamp /\ last.timestamp < q.time
    /\ last.point.id > 1

\* The samples at the least distance from the query.
Closest(g, q) == {p \in TimedPointSet(g) : GapTo(p, q) = MinGap(g, q)}

\* C2: when several samples lie at the least distance from the query,
\* nearest_location returns the one of lowest position in the time-sorted
\* index, in which samples of equal timestamp are in the file's order.
C2_TieBreakLowestIndex ==
    (last.op = "nearest_location" /\ last.outcome = "return") =>
        LET idx == points_cache.value
            at == {k \in 1..Len(idx) : idx[k] \in Closest(gpx, last.timestamp)}
        IN  /\ points_cache.cached
            /\ at # {}
            /\ last.point = idx[CHOOSE k \in at : \A j \in at : k <= j]
            /\ \A i, j \in 1..Len(idx) :
                  (i < j /\ idx[i].time = idx[j].time) => idx[i].id < idx[j].id

\* Three samples at the least distance: two of one timestamp before the query
\* and one as far after it.
C2_Witness ==
    /\ last.op = "nearest_location"
    /\ last.outcome = "return"
    /\ Cardinality(Closest(gpx, last.timestamp)) >= 3
    /\ \E p, q \in Closest(gpx, last.timestamp) : p.time < q.time
    /\ InputUnsorted(gpx)

\* C3: add_location_to_photo passes the threshold check exactly when the gap,
\* with its fraction of a second, is strictly less than delta seconds; a
\* rejected match returns 0.  Truncating the gap to an int changes nothing.
C3_ThresholdStrict ==
    (last.op = "add_location_to_photo" /\ last.outcome = "return") =>
        /\ last.accepted <=> (last.gap < opts.delta * TicksPerSecond)
        /\ ~last.accepted => last.ret = 0

\* An accepted match whose gap has a fraction of a second and truncates to
\* delta - 1.
C3_Witness ==
    /\ last.op = "add_location_to_photo"
    /\ last.outcome = "return"
    /\ last.accepted
    /\ last.gap % TicksPerSecond # 0
    /\ last.nearest_delta = opts.delta - 1

\* C4: matching a photo time q with offset d gives the sample, the gap and the
\* decision that matching the time q + d with no offset gives; an offset of
\* zero gives what no offset gives.
C4_OffsetComposition ==
    (last.op = "add_location_to_photo") =>
        LET d == IF opts.offset.given THEN opts.offset.ticks ELSE 0
            alone == AddLocationToPhoto(last.photo, last.date + d, opts.delta, NoOffset,
                                        opts.dry_run, opts.album, "ok",
                                        ComputePoints(gpx),
                                        ComputeTimestamps(ComputePoints(gpx)))
        IN  /\ last.outcome = alone.outcome
            /\ last.point = alone.point
            /\ last.gap = alone.gap
            /\ last.accepted = alone.accepted

\* A negative offset that changes the sample selected; the match is accepted.
C4_Witness ==
    /\ last.op = "add_location_to_photo"
    /\ last.outcome = "return"
    /\ opts.offset.given
    /\ opts.offset.ticks < 0
    /\ LET plain == NearestLocation(ComputePoints(gpx),
                                    ComputeTimestamps(ComputePoints(gpx)), last.date)
       IN  /\ plain.point # last.point
           /\ last.accepted

\* C5: an index of no point has len 0; a nearest_location query on it ends in
\* an exception, as does add_location_to_photo, which returns nothing; main
\* ends with a non-zero status before any query.
C5_EmptyIndex ==
    (TimedPointSet(gpx) = {}) =>
        /\ last.op = "len" => (last.outcome = "return" /\ last.ret = 0)
        /\ last.op = "nearest_location" => last.outcome = "raise"
        /\ last.op = "add_location_to_photo" => last.outcome = "raise"
        /\ main.pc \in {"start", "exit"}
        /\ main.pc = "exit" => (main.status # 0 /\ main.queries = 0)
        /\ located = {} /\ in_album = {}

\* add_location_to_photo on the index of a file whose points have no time.
C5_Witness ==
    /\ TimedPointSet(gpx) = {}
    /\ RawPointSet(gpx) # {}
    /\ points_cache.cached
    /\ Len(points_cache.value) = 0
    /\ last.op = "add_location_to_photo"
    /\ last.outcome = "raise"

\* C6 as the specification states it: the query 1090 over samples at 1000,
\* 1060 and 1120, delta 60 and no offset, returns the sample at 1120 with
\* gap 30 and is accepted.
C6_ScenarioAsStated ==
    (/\ last.op = "add_location_to_photo"
     /\ last.date = Seconds(1090)
     /\ ~opts.offset.given
     /\ opts.delta = 60) =>
        /\ last.outcome = "return"
        /\ last.point.time = Seconds(1120)
        /\ last.gap = Seconds(30)
        /\ last.accepted

\* C6 amended: that query returns the sample at 1060 (1060 and 1120 are both
\* 30 seconds away, and the earlier is chosen) with gap 30, and is accepted.
C6_ScenarioEarlierSample ==
    (/\ last.op = "add_location_to_photo"
     /\ last.date = Seconds(1090)
     /\ ~opts.offset.given
     /\ opts.delta = 60) =>
        /\ last.outcome = "return"
        /\ last.point.time = Seconds(1060)
        /\ last.gap = Seconds(30)
        /\ last.accepted

C6_Witness ==
    /\ last.op = "add_location_to_photo"
    /\ last.date = Seconds(1090)
    /\ ~opts.offset.given
    /\ opts.delta = 60
    /\ last.outcome = "return"
    /\ {p.time : p \in TimedPointSet(gpx)} = ScenarioTimes
    /\ InputUnsorted(gpx)

\* C7: the index holds exactly the points of the file that have a time, each
\* once, whatever the tracks and segments they come from and whether or not
\* timestamps repeat: its len is the number M of such points.
C7_Filtering ==
    points_cache.cached =>
        LET idx == points_cache.value
        IN  /\ Len(idx) = Cardinality(TimedPointSet(gpx))
            /\ \A p \in TimedPointSet(gpx) :
                  Cardinality({k \in 1..Len(idx) : idx[k] = p}) = 1
            /\ \A k \in 1..Len(idx) : idx[k].has_time /\ idx[k] \in RawPointSet(gpx)
            /\ last.op = "len" => last.ret = Cardinality(TimedPointSet(gpx))

\* len() of the index of a file with a point without time and two points of
\* one timestamp in different tracks.
C7_Witness ==
    /\ last.op = "len"
    /\ last.ret = 2
    /\ RawPointSet(gpx) # TimedPointSet(gpx)
    /\ \E p, q \in TimedPointSet(gpx) : p # q /\ p.time = q.time
    /\ Len(gpx.tracks) >= 2
    /\ \A t \in 1..2 : \E s \in DOMAIN gpx.tracks[t].segments :
          \E p \in Range(gpx.tracks[t].segments[s].points) : p.has_time

\* C8: whatever the order of the points in the file, and after any calls, the
\* points are in non-decreasing time order and the timestamps list is the
\* list of their times.
C8_IndexInvariant ==
    /\ points_cache.cached => IsSortedByTime(points_cache.value)
    /\ timestamps_cache.cached =>
          /\ points_cache.cached
          /\ Len(timestamps_cache.value) = Len(points_cache.value)
          /\ \A i \in 1..Len(points_cache.value) :
                timestamps_cache.value[i] = points_cache.value[i].time
          /\ \A i \in 1..(Len(timestamps_cache.value) - 1) :
                timestamps_cache.value[i] <= timestamps_cache.value[i + 1]

\* Both lists built from a file that gives its points out of time order, and
\* queried.
C8_Witness ==
    /\ timestamps_cache.cached
    /\ Len(timestamps_cache.value) >= 3
    /\ InputUnsorted(gpx)
    /\ last.op = "nearest_location"
    /\ last.outcome = "return"

\* What nearest_location returns when run alone on the index of the file.
Alone(timestamp) ==
    NearestLocation(ComputePoints(gpx), ComputeTimestamps(ComputePoints(gpx)), timestamp)

\* C9: with readers interleaved in any way, the first ones racing to build
\* the cached lists, the lists stored are those of the index, and every query
\* ends as it would when run alone.
C9_ReadersAgree ==
    /\ points_cache.cached => points_cache.value = ComputePoints(gpx)
    /\ timestamps_cache.cached =>
          timestamps_cache.value = ComputeTimestamps(ComputePoints(gpx))
    /\ \A r \in Readers :
          /\ readers[r].pc = "done" =>
                (~Alone(readers[r].timestamp).raised
                    /\ readers[r].result = Alone(readers[r].timestamp))
          /\ readers[r].pc = "raised" =>
                (Alone(readers[r].timestamp).raised
                    /\ readers[r].result.error = Alone(readers[r].timestamp).error)

\* Two readers that each built the points list themselves have both finished
\* queries of different times on an index of two points.
C9_Witness ==
    /\ \A r \in Readers : readers[r].pc = "done" /\ readers[r].computed
    /\ \E r1, r2 \in Readers : readers[r1].result.point # readers[r2].result.point
    /\ Len(points_cache.value) >= 2

====
